---- MODULE Spec2Model ----
(***************************************************************************)
(* Model of the context-strategy Observer (context_strategy_observer.py)   *)
(* and Tuner (context_strategy_tuner.py).                                  *)
(*                                                                         *)
(* JSON values are records [t, n, d, s]: a number is the exact rational    *)
(* n/d (d > 0), a string is a sequence of tokens in which the token " " is *)
(* one whitespace character and every other token is a run of              *)
(* non-whitespace characters, null is JSON null, and "absent" is a key     *)
(* that the mapping does not hold (dict.get then yields its default).      *)
(* Rates are kept as exact rationals, so a comparison with a threshold is  *)
(* the comparison of the real numbers.                                     *)
(***************************************************************************)
EXTENDS Integers, Sequences, FiniteSets, TLC

VARIABLES
  cutoff_ms,      \* Observer: build_report's cutoff_ms
  grouped,        \* Observer: build_report's grouped (key -> counters)
  events,         \* Observer: the events of the open file still to be counted
  bucketKey,      \* Observer: (model, task_class) of the open file
  filesRead,      \* Observer: number of files taken from the directory so far
  linesRead,      \* Observer: number of lines read from those files
  obsPc,          \* Observer: "scan" | "count" | "done"
  summary_payload,\* Observer: the emitted summary payload
  session,        \* Attributor: the session handed to session_bucket
  attributed,     \* Attributor: [done, model, task_class]
  armBucket,      \* Decision rule: the bucket handed to choose_arm
  arm,            \* Decision rule: choose_arm's result ("" before the call)
  summaryFile,    \* Tuner: the Observer summary document on disk
  overridesFile,  \* Tuner: the overrides document on disk
  tuner           \* Tuner: the last run [exit, apply, overrides]

vars == <<cutoff_ms, grouped, events, bucketKey, filesRead, linesRead, obsPc,
          summary_payload, session, attributed, armBucket, arm, summaryFile,
          overridesFile, tuner>>

obsVars == <<cutoff_ms, grouped, events, bucketKey, filesRead, linesRead, obsPc,
             summary_payload>>
attrVars == <<session, attributed>>
armVars == <<armBucket, arm>>
tunerVars == <<summaryFile, overridesFile, tuner>>

----------------------------------------------------------------------------
(* JSON values *)

Num(n, d) == [t |-> "num", n |-> n, d |-> d, s |-> <<>>]
IntV(n) == Num(n, 1)
Str(s) == [t |-> "str", n |-> 0, d |-> 1, s |-> s]
Null == [t |-> "null", n |-> 0, d |-> 1, s |-> <<>>]
Absent == [t |-> "absent", n |-> 0, d |-> 1, s |-> <<>>]

Max(a, b) == IF a >= b THEN a ELSE b

\* str.strip(): leading and trailing whitespace removed.
RECURSIVE LStrip(_)
LStrip(s) == IF s # <<>> /\ Head(s) = " " THEN LStrip(Tail(s)) ELSE s

RECURSIVE RStrip(_)
RStrip(s) ==
  IF s # <<>> /\ s[Len(s)] = " " THEN RStrip(SubSeq(s, 1, Len(s) - 1)) ELSE s

Strip(s) == RStrip(LStrip(s))

\* Comparison of the rational x with the threshold pct/100.
GeqPct(x, pct) == x.n * 100 >= pct * x.d
LeqPct(x, pct) == x.n * 100 <= pct * x.d

----------------------------------------------------------------------------
(* Tuner: the decision rule *)

\* A bucket of the summary document.  isDict is FALSE for a bucket that is
\* not a mapping; samplesIsDict is FALSE when "samples" is missing or not a
\* mapping.
Bucket(model, taskClass, samplesIsDict, plans, floor, dropped, quality, zone) ==
  [isDict |-> TRUE, model |-> model, taskClass |-> taskClass,
   samplesIsDict |-> samplesIsDict, plans |-> plans,
   floorUnmetRate |-> floor, injectionDroppedRate |-> dropped,
   qualityProxy |-> quality, zoneAdaptationMoveRatio |-> zone]

NonDictBucket ==
  [isDict |-> FALSE, model |-> Absent, taskClass |-> Absent,
   samplesIsDict |-> FALSE, plans |-> Absent,
   floorUnmetRate |-> Absent, injectionDroppedRate |-> Absent,
   qualityProxy |-> Absent, zoneAdaptationMoveRatio |-> Absent]

\* float(v) raises for None (TypeError) and for a string that is no numeral
\* (ValueError); the strings of the model are no numerals.
FloatRaises(v) == v.t \in {"str", "null"}

\* float(bucket.get(key, 0.0)) where it returns.
GetFloat(v) == IF v.t = "absent" THEN Num(0, 1) ELSE v

\* A plausible slip: the zone-adaptation threshold is left out of the
\* passthrough test.
choose_arm_no_zone(bucket) ==
  IF \/ FloatRaises(bucket.floorUnmetRate)
     \/ FloatRaises(bucket.injectionDroppedRate)
     \/ FloatRaises(bucket.qualityProxy)
     \/ FloatRaises(bucket.zoneAdaptationMoveRatio)
  THEN "raise"
  ELSE LET floor_unmet == GetFloat(bucket.floorUnmetRate)
           dropped == GetFloat(bucket.injectionDroppedRate)
           quality == GetFloat(bucket.qualityProxy)
       IN IF /\ GeqPct(quality, 92) /\ LeqPct(floor_unmet, 1)
             /\ LeqPct(dropped, 8)
          THEN "passthrough"
          ELSE IF GeqPct(quality, 88) /\ LeqPct(floor_unmet, 5)
               THEN "hybrid"
               ELSE "managed"

choose_arm(bucket) ==
  IF \/ FloatRaises(bucket.floorUnmetRate)
     \/ FloatRaises(bucket.injectionDroppedRate)
     \/ FloatRaises(bucket.qualityProxy)
     \/ FloatRaises(bucket.zoneAdaptationMoveRatio)
  THEN "raise"
  ELSE LET floor_unmet == GetFloat(bucket.floorUnmetRate)
           dropped == GetFloat(bucket.injectionDroppedRate)
           quality == GetFloat(bucket.qualityProxy)
           zone_ratio == GetFloat(bucket.zoneAdaptationMoveRatio)
       IN IF /\ GeqPct(quality, 92) /\ LeqPct(floor_unmet, 1)
             /\ LeqPct(dropped, 8) /\ LeqPct(zone_ratio, 2)
          THEN "passthrough"
          ELSE IF GeqPct(quality, 88) /\ LeqPct(floor_unmet, 5)
               THEN "hybrid"
               ELSE "managed"

\* Metric values around every threshold of the rule, on both sides of it,
\* a missing metric, and values that are not numbers.
QualityValues ==
  {Absent, Num(-1, 100), Num(87, 100), Num(22, 25), Num(91, 100),
   Num(23, 25), Num(1, 1), Str(<<"n/a">>)}
FloorValues ==
  {Absent, Num(1, 100), Num(2, 100), Num(1, 20), Num(6, 100), Num(3, 1)}
DroppedValues == {Absent, Num(2, 25), Num(9, 100), Null}
ZoneValues == {Absent, Num(1, 50), Num(3, 100), Num(-1, 1)}

ArmBuckets ==
  {Bucket(Str(<<"m1">>), Str(<<"s1">>), TRUE, IntV(20), f, d, q, z) :
     f \in FloorValues, d \in DroppedValues, q \in QualityValues,
     z \in ZoneValues}

ArmInit == armBucket \in ArmBuckets /\ arm = ""

ChooseArm ==
  /\ arm = ""
  /\ arm' = choose_arm(armBucket)
  /\ UNCHANGED armBucket

----------------------------------------------------------------------------
(* Tuner: build_overrides and main *)

HourMs == 60 * 60 * 1000

\* int(x) of a number: truncation toward zero.
Trunc(v) == IF v.n >= 0 THEN v.n \div v.d ELSE -((-v.n) \div v.d)

\* Python truthiness of the value in `samples.get("plans", 0) or 0`.
Falsy(v) ==
  \/ v.t \in {"absent", "null"}
  \/ v.t = "num" /\ v.n = 0
  \/ v.t = "str" /\ v.s = <<>>

\* int(samples.get("plans", 0) or 0) raises ValueError for a string that is
\* no numeral; the strings of the model are no numerals.
PlansRaises(bucket) ==
  bucket.samplesIsDict /\ ~Falsy(bucket.plans) /\ bucket.plans.t = "str"

\* plans of build_overrides, where int() returns.
PlansOf(bucket) ==
  IF ~bucket.samplesIsDict \/ Falsy(bucket.plans) THEN 0
  ELSE Trunc(bucket.plans)

\* str(bucket.get(key, "*"))
StrOf(v) ==
  CASE v.t = "absent" -> <<"*">>
    [] v.t = "str" -> v.s
    [] v.t = "null" -> <<"None">>
    [] OTHER -> <<ToString(Trunc(v))>>

\* str(bucket.get(key, "*")).strip() or "*"
Label(v) == IF Strip(StrOf(v)) = <<>> THEN <<"*">> ELSE Strip(StrOf(v))

OverrideEntry(index, bucket, now, expires_at) ==
  [id |-> index, model |-> Label(bucket.model),
   taskClass |-> Label(bucket.taskClass), arm |-> choose_arm(bucket),
   expiresAt |-> expires_at, updatedAt |-> now, source |-> "tuner"]

\* A plausible slip: the floor itself is excluded.
BelowFloorInclusive(plans) == plans <= 20

\* if plans < 20: continue
BelowFloor(plans) == plans < 20

\* The loop of build_overrides from bucket `index` on: [raised, entries].
\* An exception raised for any bucket ends the whole call.
RECURSIVE BuildEntries(_, _, _, _)
BuildEntries(buckets, index, now, expires_at) ==
  IF index > Len(buckets) THEN [raised |-> FALSE, entries |-> <<>>]
  ELSE LET bucket == buckets[index]
           rest == BuildEntries(buckets, index + 1, now, expires_at)
       IN IF ~bucket.isDict THEN rest
          ELSE IF PlansRaises(bucket) THEN [raised |-> TRUE, entries |-> <<>>]
          ELSE IF BelowFloor(PlansOf(bucket)) THEN rest
          ELSE IF choose_arm(bucket) = "raise" \/ rest.raised
               THEN [raised |-> TRUE, entries |-> <<>>]
          ELSE [raised |-> FALSE,
                entries |-> <<OverrideEntry(index, bucket, now, expires_at)>>
                              \o rest.entries]

\* summary is [bucketsIsList, buckets]; the result is [raised, doc].
build_overrides(summary, ttl_hours, now) ==
  LET expires_at == now + Max(1, ttl_hours) * HourMs
      buckets == IF summary.bucketsIsList THEN summary.buckets ELSE <<>>
      built == BuildEntries(buckets, 1, now, expires_at)
  IN [raised |-> built.raised,
      doc |-> [version |-> 1, generatedAt |-> now, entries |-> built.entries]]

\* The summary document on disk.  file is "missing" (no file at the input
\* path), "unparseable" (not JSON), "nondict" (JSON, but no mapping) or
\* "dict"; bucketsIsList is FALSE when "buckets" is missing or not a list.
SummaryDoc(file, bucketsIsList, buckets) ==
  [file |-> file, bucketsIsList |-> bucketsIsList, buckets |-> buckets]

load_json(doc) ==
  IF doc.file = "dict"
  THEN [bucketsIsList |-> doc.bucketsIsList, buckets |-> doc.buckets]
  ELSE [bucketsIsList |-> FALSE, buckets |-> <<>>]

NoOverrides == [version |-> 0, generatedAt |-> 0, entries |-> <<>>]

NoFile == [exists |-> FALSE, doc |-> NoOverrides]

\* tuner.before is the overrides file as the run found it (history).
NotRun ==
  [ran |-> FALSE, exit |-> 0, raised |-> FALSE, apply |-> FALSE,
   overrides |-> NoOverrides, before |-> NoFile]

\* A plausible slip: the entries of the file whose key the new document
\* does not name are kept.
MergeOverrides(file, doc) ==
  [exists |-> TRUE,
   doc |-> [doc EXCEPT
     !.entries =
       SelectSeq(file.doc.entries,
                 LAMBDA old : \A i \in 1..Len(doc.entries) :
                   <<doc.entries[i].model, doc.entries[i].taskClass>>
                     # <<old.model, old.taskClass>>)
       \o doc.entries]]

\* output_path.write_text(json.dumps(overrides, ...)): the file is replaced.
WriteOverrides(file, doc) == [exists |-> TRUE, doc |-> doc]

\* main() of the Tuner on the summary document at the input path.  An
\* uncaught exception ends the interpreter with exit status 1 before
\* anything is written.
TunerMain(apply, ttl_hours, now) ==
  /\ ~tuner.ran
  /\ UNCHANGED summaryFile
  /\ IF summaryFile.file = "missing"
     THEN /\ tuner' = [ran |-> TRUE, exit |-> 1, raised |-> FALSE,
                       apply |-> apply, overrides |-> NoOverrides,
                       before |-> overridesFile]
          /\ UNCHANGED overridesFile
     ELSE LET overrides ==
                build_overrides(load_json(summaryFile), ttl_hours, now)
          IN IF overrides.raised
             THEN /\ tuner' = [ran |-> TRUE, exit |-> 1, raised |-> TRUE,
                               apply |-> apply, overrides |-> NoOverrides,
                               before |-> overridesFile]
                  /\ UNCHANGED overridesFile
             ELSE /\ tuner' = [ran |-> TRUE, exit |-> 0, raised |-> FALSE,
                               apply |-> apply, overrides |-> overrides.doc,
                               before |-> overridesFile]
                  /\ overridesFile' =
                       IF apply
                       THEN WriteOverrides(overridesFile, overrides.doc)
                       ELSE overridesFile

\* Metric profiles: one for each arm, and one with a metric that is no number.
PassMetrics == <<Num(0, 1), Num(2, 27), Num(25, 27), Num(0, 1)>>
HybridMetrics == <<Num(1, 20), Num(1, 10), Num(9, 10), Num(1, 2)>>
ManagedMetrics == <<Num(3, 1), Num(1, 2), Num(1, 2), Num(2, 1)>>
BadMetrics == <<Num(0, 1), Num(0, 1), Str(<<"n/a">>), Num(0, 1)>>

WithMetrics(model, taskClass, samplesIsDict, plans, m) ==
  Bucket(model, taskClass, samplesIsDict, plans, m[1], m[2], m[3], m[4])

M1 == Str(<<"m1">>)
S1 == Str(<<"s1">>)

\* Buckets on both sides of the sample-size floor, with whole and fractional
\* and missing and malformed sample counts, padded and blank and missing
\* labels, and malformed buckets.
TunerBuckets ==
  {NonDictBucket,
   WithMetrics(M1, S1, TRUE, IntV(19), PassMetrics),
   WithMetrics(M1, S1, TRUE, IntV(20), PassMetrics),
   WithMetrics(M1, S1, TRUE, IntV(20), ManagedMetrics),
   WithMetrics(Str(<<" ", "m2", " ">>), S1, TRUE, Num(39, 2), HybridMetrics),
   WithMetrics(Str(<<" ", "m2", " ">>), S1, TRUE, Num(41, 2), HybridMetrics),
   WithMetrics(Str(<<" ">>), Absent, TRUE, IntV(25), HybridMetrics),
   WithMetrics(M1, S1, FALSE, Absent, PassMetrics),
   WithMetrics(M1, S1, TRUE, Absent, PassMetrics),
   WithMetrics(M1, S1, TRUE, Null, PassMetrics),
   WithMetrics(M1, S1, TRUE, Str(<<"many">>), PassMetrics),
   WithMetrics(M1, S1, TRUE, IntV(20), BadMetrics),
   WithMetrics(M1, S1, TRUE, IntV(19), BadMetrics)}

MaxBuckets == 2

BucketLists == UNION {[1..n -> TunerBuckets] : n \in 0..MaxBuckets}

TunerDocs ==
  {SummaryDoc("missing", FALSE, <<>>), SummaryDoc("unparseable", FALSE, <<>>),
   SummaryDoc("nondict", FALSE, <<>>), SummaryDoc("dict", FALSE, <<>>)}
  \cup {SummaryDoc("dict", TRUE, b) : b \in BucketLists}

TtlArgs == {0, 168}
TunerClock == {100 * HourMs}

TunerInit ==
  /\ summaryFile \in TunerDocs
  /\ overridesFile = NoFile
  /\ tuner = NotRun

TunerApply ==
  \E ttl_hours \in TtlArgs, now \in TunerClock :
    TunerMain(TRUE, ttl_hours, now)

TunerPreview ==
  \E ttl_hours \in TtlArgs, now \in TunerClock :
    TunerMain(FALSE, ttl_hours, now)

\* Summaries of successive Observer runs over two bucket keys, each on
\* either side of the sample-size floor.
RetuneBuckets ==
  {WithMetrics(M1, S1, TRUE, IntV(19), PassMetrics),
   WithMetrics(M1, S1, TRUE, IntV(20), PassMetrics),
   WithMetrics(Str(<<"m2">>), S1, TRUE, IntV(27), ManagedMetrics),
   WithMetrics(Str(<<"m2">>), S1, TRUE, IntV(0), ManagedMetrics)}

RetuneDocs ==
  {SummaryDoc("missing", FALSE, <<>>)}
  \cup {SummaryDoc("dict", TRUE, b) :
          b \in UNION {[1..n -> RetuneBuckets] : n \in 0..MaxBuckets}}

RetuneInit ==
  /\ summaryFile \in RetuneDocs
  /\ overridesFile = NoFile
  /\ tuner = NotRun

\* The Observer's main() writes the summary of a later run; the Tuner is
\* then started again.
PutSummary ==
  /\ tuner.ran
  /\ summaryFile' \in RetuneDocs
  /\ tuner' = NotRun
  /\ UNCHANGED overridesFile

----------------------------------------------------------------------------
(* Observer: events and the Session Attributor *)

UNKNOWN_MODEL == <<"(unknown)">>
NONE_TASK_CLASS == <<"(none)">>

\* payload.get(field) of an event; isDict is FALSE for an event whose
\* payload is missing or no mapping.
NoPayload ==
  [isDict |-> FALSE, model |-> Absent, skillName |-> Absent,
   sourceTokens |-> Absent, movedTokens |-> Absent, reason |-> Absent,
   outcome |-> Absent]
EmptyPayload == [NoPayload EXCEPT !.isDict = TRUE]

Event(type, timestamp, payload) ==
  [type |-> type, timestamp |-> timestamp, payload |-> payload]

\* isinstance(candidate, str) and candidate.strip()
IsLabel(v) == v.t = "str" /\ Strip(v.s) # <<>>

\* The loop of session_bucket over reversed(events), at events[i], with the
\* labels found so far.
RECURSIVE ScanBack(_, _, _, _)
ScanBack(evs, i, model, task_class) ==
  IF i = 0 THEN <<model, task_class>>
  ELSE LET event == evs[i]
           payload == event.payload
           model2 ==
             IF /\ model = UNKNOWN_MODEL /\ event.type = "cost_update"
                /\ IsLabel(payload.model)
             THEN Strip(payload.model.s) ELSE model
           task2 ==
             IF /\ task_class = NONE_TASK_CLASS
                /\ event.type = "skill_activated"
                /\ IsLabel(payload.skillName)
             THEN Strip(payload.skillName.s) ELSE task_class
       IN IF ~payload.isDict THEN ScanBack(evs, i - 1, model, task_class)
          ELSE IF model2 # UNKNOWN_MODEL /\ task2 # NONE_TASK_CLASS
               THEN <<model2, task2>>
               ELSE ScanBack(evs, i - 1, model2, task2)

session_bucket(evs) == ScanBack(evs, Len(evs), UNKNOWN_MODEL, NONE_TASK_CLASS)

----------------------------------------------------------------------------
(* Observer: build_report *)

DayMs == 24 * HourMs
ObserverNow == 10 * DayMs

\* A line of an event file: an event, or a line read_jsonl drops (no JSON,
\* or JSON that is no mapping).
CorruptLine == Event("<corrupt line>", Absent, NoPayload)

read_jsonl(lines) == SelectSeq(lines, LAMBDA l : l # CorruptLine)

ZeroCounters ==
  [plans |-> 0, floor_unmet |-> 0, dropped |-> 0, injected_tokens_sum |-> 0,
   injected_count |-> 0, zone_moves |-> 0, zone_move_tokens |-> 0,
   verification_total |-> 0, verification_pass |-> 0]

\* The token counts of the model are whole numbers (d = 1).
as_number(v) == IF v.t = "num" THEN v.n ELSE 0

\* A plausible slip: an event stamped exactly at the cutoff is left out.
InWindowAfter(event, cutoff) ==
  event.timestamp.t = "num"
  /\ event.timestamp.n > cutoff * event.timestamp.d

\* not (not isinstance(timestamp, (int, float)) or timestamp < cutoff_ms)
InWindow(event, cutoff) ==
  event.timestamp.t = "num"
  /\ ~(event.timestamp.n < cutoff * event.timestamp.d)

\* A plausible slip: a dropped injection is not counted as a plan.
CountDroppedOnly(bucket) == [bucket EXCEPT !.dropped = @ + 1]

\* bucket["plans"] += 1; bucket["dropped"] += 1
CountDropped(bucket) == [bucket EXCEPT !.plans = @ + 1, !.dropped = @ + 1]

\* The if/elif chain of build_report on one event inside the window.
CountEventType(bucket, event) ==
  LET payload == IF event.payload.isDict THEN event.payload ELSE EmptyPayload
  IN CASE event.type = "context_injected" ->
            [bucket EXCEPT
               !.plans = @ + 1, !.injected_count = @ + 1,
               !.injected_tokens_sum = @ + as_number(payload.sourceTokens)]
       [] event.type = "context_injection_dropped" ->
            IF payload.reason # Str(<<"duplicate_content">>)
            THEN CountDropped(bucket)
            ELSE bucket
       [] event.type = "context_arena_floor_unmet_unrecoverable" ->
            [bucket EXCEPT !.floor_unmet = @ + 1]
       [] event.type = "context_arena_zone_adapted" ->
            [bucket EXCEPT
               !.zone_moves = @ + 1,
               !.zone_move_tokens = @ + as_number(payload.movedTokens)]
       [] event.type = "verification_outcome_recorded" ->
            IF payload.outcome = Str(<<"pass">>)
            THEN [bucket EXCEPT !.verification_total = @ + 1,
                                !.verification_pass = @ + 1]
            ELSE [bucket EXCEPT !.verification_total = @ + 1]
       [] OTHER -> bucket

\* One iteration of the inner loop of build_report.
CountOne(bucket, event, cutoff) ==
  IF InWindow(event, cutoff) THEN CountEventType(bucket, event) ELSE bucket

\* A plausible slip: the counters of the key are zeroed for every file.
TouchAndReset(g, key) ==
  [k \in DOMAIN g \cup {key} |-> IF k = key THEN ZeroCounters ELSE g[k]]

\* grouped[(model, task_class)] of the defaultdict: a missing key is
\* inserted with zeroed counters.
Touch(g, key) ==
  IF key \in DOMAIN g THEN g ELSE [k \in DOMAIN g \cup {key} |->
                                     IF k = key THEN ZeroCounters ELSE g[k]]

\* The labels of the model in code-point order, as sorted() compares them.
LabelOrder ==
  <<<<"(none)">>, <<"(unknown)">>, <<"*">>, <<"m1">>, <<"m2">>, <<"s1">>,
    <<"s2">>>>
Rank(label) == CHOOSE i \in 1..Len(LabelOrder) : LabelOrder[i] = label
KeyLess(a, b) ==
  \/ Rank(a[1]) < Rank(b[1])
  \/ a[1] = b[1] /\ Rank(a[2]) < Rank(b[2])

RECURSIVE SortedKeys(_)
SortedKeys(S) ==
  IF S = {} THEN <<>>
  ELSE LET least == CHOOSE k \in S : \A other \in S \ {k} : KeyLess(k, other)
       IN <<least>> \o SortedKeys(S \ {least})

\* A plausible slip: the drop rate is taken over the injections instead of
\* the plans.
BucketSummaryPerInjection(key, values) ==
  LET plans == Max(1, values.plans)
      injected_count == Max(1, values.injected_count)
      verification_total == Max(1, values.verification_total)
  IN [model |-> key[1], taskClass |-> key[2],
      floorUnmetRate |-> Num(values.floor_unmet, plans),
      injectionDroppedRate |-> Num(values.dropped, injected_count),
      avgInjectionTokens |-> Num(values.injected_tokens_sum, injected_count),
      zoneAdaptationMoveRatio |->
        Num(values.zone_move_tokens, Max(1, values.injected_tokens_sum)),
      verificationPassRate |->
        Num(values.verification_pass, verification_total),
      qualityProxy |->
        Num(values.verification_pass * (injected_count - values.dropped),
            verification_total * injected_count),
      samples |-> [plans |-> values.plans,
                   verification |-> values.verification_total]]

\* The Rate Calculator: the summary record of one bucket.
BucketSummary(key, values) ==
  LET plans == Max(1, values.plans)
      injected_count == Max(1, values.injected_count)
      verification_total == Max(1, values.verification_total)
  IN [model |-> key[1], taskClass |-> key[2],
      floorUnmetRate |-> Num(values.floor_unmet, plans),
      injectionDroppedRate |-> Num(values.dropped, plans),
      avgInjectionTokens |-> Num(values.injected_tokens_sum, injected_count),
      zoneAdaptationMoveRatio |->
        Num(values.zone_move_tokens, Max(1, values.injected_tokens_sum)),
      verificationPassRate |->
        Num(values.verification_pass, verification_total),
      qualityProxy |->
        Num(values.verification_pass * (plans - values.dropped),
            verification_total * plans),
      samples |-> [plans |-> values.plans,
                   verification |-> values.verification_total]]

Summarize(g) ==
  LET keys == SortedKeys(DOMAIN g)
  IN [hasBuckets |-> TRUE,
      buckets |-> [i \in 1..Len(keys) |-> BucketSummary(keys[i], g[keys[i]])]]

\* Payloads and events of the Observer runs.
Tokens(v) == [EmptyPayload EXCEPT !.sourceTokens = v]
Moved(v) == [EmptyPayload EXCEPT !.movedTokens = v]
Reason(v) == [EmptyPayload EXCEPT !.reason = v]
Outcome(v) == [EmptyPayload EXCEPT !.outcome = v]
ModelOf(v) == [EmptyPayload EXCEPT !.model = v]
SkillOf(v) == [EmptyPayload EXCEPT !.skillName = v]

\* Events of every counted type inside the window (timestamp at the cutoff),
\* with numeric (of either sign), non-numeric and missing payload fields;
\* a payload that is no mapping; events outside the window or without a
\* numeric timestamp; an attribution event and an event of an ignored type.
ObsEvents(cutoff) ==
  {Event("context_injected", IntV(cutoff), Tokens(IntV(3))),
   Event("context_injected", IntV(cutoff), Tokens(IntV(-2))),
   Event("context_injected", IntV(cutoff), Tokens(Str(<<"many">>))),
   Event("context_injected", IntV(cutoff - 1), Tokens(IntV(3))),
   Event("context_injection_dropped", IntV(cutoff),
         Reason(Str(<<"duplicate_content">>))),
   Event("context_injection_dropped", IntV(cutoff), Reason(Str(<<"other">>))),
   Event("context_injection_dropped", IntV(cutoff + 1), NoPayload),
   Event("context_arena_floor_unmet_unrecoverable", IntV(cutoff + 1),
         NoPayload),
   Event("context_arena_floor_unmet_unrecoverable", Str(<<"yesterday">>),
         NoPayload),
   Event("context_arena_zone_adapted", IntV(cutoff), Moved(IntV(2))),
   Event("context_arena_zone_adapted", IntV(cutoff), Moved(Str(<<"few">>))),
   Event("verification_outcome_recorded", IntV(cutoff),
         Outcome(Str(<<"pass">>))),
   Event("verification_outcome_recorded", IntV(cutoff),
         Outcome(Str(<<"fail">>))),
   Event("cost_update", IntV(cutoff - 1), ModelOf(M1)),
   Event("tool_call", IntV(cutoff), EmptyPayload)}

\* The events directory holds at most MaxFiles files and MaxLines lines.
MaxFiles == 2
MaxLines == 3

EventFiles(cutoff, n) ==
  UNION {[1..k -> ObsEvents(cutoff) \cup {CorruptLine}] : k \in 0..n}

DaysArgs == {7}

NoSummary == [hasBuckets |-> FALSE, buckets |-> <<>>]

\* main() passes max(1, args.days); the events directory exists ("scan") or
\* does not ("nodir").
ObsInit ==
  /\ cutoff_ms \in {ObserverNow - Max(1, days) * DayMs : days \in DaysArgs}
  /\ grouped = <<>>
  /\ events = <<>>
  /\ bucketKey = <<UNKNOWN_MODEL, NONE_TASK_CLASS>>
  /\ filesRead = 0
  /\ linesRead = 0
  /\ obsPc \in {"scan", "nodir"}
  /\ summary_payload = NoSummary

\* if not events_dir.exists(): return (..., {})
ReportNoDir ==
  /\ obsPc = "nodir"
  /\ obsPc' = "done"
  /\ summary_payload' = NoSummary
  /\ UNCHANGED <<cutoff_ms, grouped, events, bucketKey, filesRead, linesRead>>

\* The head of the loop over the files: read the next file, skip it when it
\* holds no event, otherwise attribute the session and look its bucket up.
OpenFile ==
  /\ obsPc = "scan"
  /\ filesRead < MaxFiles
  /\ \E lines \in EventFiles(cutoff_ms, MaxLines - linesRead) :
       LET evs == read_jsonl(lines)
       IN /\ filesRead' = filesRead + 1
          /\ linesRead' = linesRead + Len(lines)
          /\ IF evs = <<>>
             THEN UNCHANGED <<grouped, events, bucketKey, obsPc>>
             ELSE /\ bucketKey' = session_bucket(evs)
                  /\ grouped' = Touch(grouped, session_bucket(evs))
                  /\ events' = evs
                  /\ obsPc' = "count"
  /\ UNCHANGED <<cutoff_ms, summary_payload>>

\* One iteration of the loop over the events of the open file.
CountEvent ==
  /\ obsPc = "count"
  /\ grouped' = [grouped EXCEPT
                   ![bucketKey] = CountOne(@, Head(events), cutoff_ms)]
  /\ events' = Tail(events)
  /\ obsPc' = IF Tail(events) = <<>> THEN "scan" ELSE "count"
  /\ UNCHANGED <<cutoff_ms, bucketKey, filesRead, linesRead, summary_payload>>

\* After the last file: the summary payload is built from grouped.
EmitSummary ==
  /\ obsPc = "scan"
  /\ summary_payload' = Summarize(grouped)
  /\ obsPc' = "done"
  /\ UNCHANGED <<cutoff_ms, grouped, events, bucketKey, filesRead, linesRead>>

----------------------------------------------------------------------------
(* Attributor runs *)

\* Events of the two attribution types with labels that are plain, padded,
\* blank, equal to a fallback label, no string or missing; with a payload
\* that is no mapping; with timestamps inside and outside the window.
AttrEvents ==
  {Event("cost_update", IntV(ObserverNow), ModelOf(M1)),
   Event("cost_update", IntV(0), ModelOf(Str(<<" ", "m2", " ">>))),
   Event("cost_update", IntV(ObserverNow), ModelOf(Str(<<" ">>))),
   Event("cost_update", IntV(ObserverNow), ModelOf(Str(UNKNOWN_MODEL))),
   Event("cost_update", Absent, ModelOf(IntV(5))),
   Event("cost_update", IntV(ObserverNow), NoPayload),
   Event("skill_activated", IntV(0), SkillOf(S1)),
   Event("skill_activated", IntV(ObserverNow),
         SkillOf(Str(<<"s2", " ">>))),
   Event("skill_activated", IntV(ObserverNow), SkillOf(Absent)),
   Event("skill_activated", IntV(ObserverNow), SkillOf(Str(NONE_TASK_CLASS))),
   Event("context_injected", IntV(ObserverNow),
         [EmptyPayload EXCEPT !.model = M1, !.skillName = S1])}

MaxSessionLen == 3

AttrSessions == UNION {[1..n -> AttrEvents] : n \in 0..MaxSessionLen}

NotAttributed ==
  [done |-> FALSE, model |-> UNKNOWN_MODEL, task_class |-> NONE_TASK_CLASS]

AttrInit == session \in AttrSessions /\ attributed = NotAttributed

Attribute ==
  /\ ~attributed.done
  /\ attributed' = [done |-> TRUE, model |-> session_bucket(session)[1],
                    task_class |-> session_bucket(session)[2]]
  /\ UNCHANGED session

----------------------------------------------------------------------------
(* Specifications.  Each runs one component and leaves the others idle. *)

ObsIdle ==
  /\ cutoff_ms = 0 /\ grouped = <<>> /\ events = <<>>
  /\ bucketKey = <<UNKNOWN_MODEL, NONE_TASK_CLASS>> /\ filesRead = 0
  /\ linesRead = 0 /\ obsPc = "idle" /\ summary_payload = NoSummary
AttrIdle == session = <<>> /\ attributed = NotAttributed
ArmIdle == armBucket = NonDictBucket /\ arm = ""
TunerIdle ==
  /\ summaryFile = SummaryDoc("missing", FALSE, <<>>)
  /\ overridesFile = NoFile
  /\ tuner = NotRun

\* The Observer.
Init == ObsInit /\ AttrIdle /\ ArmIdle /\ TunerIdle
Next ==
  \/ ReportNoDir /\ UNCHANGED <<attrVars, armVars, tunerVars>>
  \/ OpenFile /\ UNCHANGED <<attrVars, armVars, tunerVars>>
  \/ CountEvent /\ UNCHANGED <<attrVars, armVars, tunerVars>>
  \/ EmitSummary /\ UNCHANGED <<attrVars, armVars, tunerVars>>
Spec == Init /\ [][Next]_vars

\* The Session Attributor alone.
AttrNext == Attribute /\ UNCHANGED <<obsVars, armVars, tunerVars>>
AttrSpecInit == ObsIdle /\ AttrInit /\ ArmIdle /\ TunerIdle
AttrSpec == AttrSpecInit /\ [][AttrNext]_vars

\* The decision rule alone.
ArmNext == ChooseArm /\ UNCHANGED <<obsVars, attrVars, tunerVars>>
ArmSpecInit == ObsIdle /\ AttrIdle /\ ArmInit /\ TunerIdle
ArmSpec == ArmSpecInit /\ [][ArmNext]_vars

\* The Tuner.
TunerNext ==
  \/ TunerApply /\ UNCHANGED <<obsVars, attrVars, armVars>>
  \/ TunerPreview /\ UNCHANGED <<obsVars, attrVars, armVars>>
TunerSpecInit == ObsIdle /\ AttrIdle /\ ArmIdle /\ TunerInit
TunerSpec == TunerSpecInit /\ [][TunerNext]_vars

\* The Tuner applied again after each new Observer summary.
RetuneNext ==
  \/ TunerApply /\ UNCHANGED <<obsVars, attrVars, armVars>>
  \/ TunerPreview /\ UNCHANGED <<obsVars, attrVars, armVars>>
  \/ PutSummary /\ UNCHANGED <<obsVars, attrVars, armVars>>
RetuneSpecInit == ObsIdle /\ AttrIdle /\ ArmIdle /\ RetuneInit
RetuneSpec == RetuneSpecInit /\ [][RetuneNext]_vars

----------------------------------------------------------------------------
(* Claims *)

\* The metric as the claims read it: a number, a missing metric counting
\* as 0.
IsMetric(v) == v.t \in {"num", "absent"}
MetricN(v) == IF v.t = "num" THEN v.n ELSE 0
MetricD(v) == IF v.t = "num" THEN v.d ELSE 1

MeetsPassthrough(b) ==
  /\ 100 * MetricN(b.qualityProxy) >= 92 * MetricD(b.qualityProxy)
  /\ 100 * MetricN(b.floorUnmetRate) <= 1 * MetricD(b.floorUnmetRate)
  /\ 100 * MetricN(b.injectionDroppedRate)
       <= 8 * MetricD(b.injectionDroppedRate)
  /\ 100 * MetricN(b.zoneAdaptationMoveRatio)
       <= 2 * MetricD(b.zoneAdaptationMoveRatio)

MeetsHybrid(b) ==
  /\ 100 * MetricN(b.qualityProxy) >= 88 * MetricD(b.qualityProxy)
  /\ 100 * MetricN(b.floorUnmetRate) <= 5 * MetricD(b.floorUnmetRate)

NumericMetrics(b) ==
  /\ IsMetric(b.qualityProxy) /\ IsMetric(b.floorUnmetRate)
  /\ IsMetric(b.injectionDroppedRate) /\ IsMetric(b.zoneAdaptationMoveRatio)

\* C1: for every bucket summary whose metrics are numbers (a missing metric
\* counting as 0) choose_arm returns one of passthrough, hybrid, managed:
\* passthrough exactly when the four passthrough thresholds are met,
\* otherwise hybrid exactly when the two hybrid thresholds are met, otherwise
\* managed; so a summary meeting the passthrough thresholds is never managed.
C1_ChooseArmFirstMatch ==
  (arm # "" /\ NumericMetrics(armBucket)) =>
    /\ arm \in {"passthrough", "hybrid", "managed"}
    /\ arm = "passthrough" <=> MeetsPassthrough(armBucket)
    /\ arm = "hybrid" <=>
         (~MeetsPassthrough(armBucket) /\ MeetsHybrid(armBucket))
    /\ arm = "managed" <=>
         (~MeetsPassthrough(armBucket) /\ ~MeetsHybrid(armBucket))
    /\ MeetsPassthrough(armBucket) => arm # "managed"

\* The rule has fallen through to hybrid for a bucket that meets the quality
\* threshold of passthrough, fails its zone threshold and has a metric
\* missing.
C1_Witness ==
  /\ arm = "hybrid"
  /\ armBucket.qualityProxy = Num(23, 25)
  /\ armBucket.zoneAdaptationMoveRatio = Num(3, 100)
  /\ armBucket.floorUnmetRate = Absent

\* The buckets build_overrides loops over.
ListedBuckets ==
  IF summaryFile.file = "dict" /\ summaryFile.bucketsIsList
  THEN summaryFile.buckets ELSE <<>>

\* The bucket is a mapping whose samples.plans is a number, 20 or more.
HasEnoughPlans(b) ==
  /\ b.isDict /\ b.samplesIsDict /\ b.plans.t = "num"
  /\ b.plans.n >= 20 * b.plans.d

\* The bucket is no mapping, or its samples.plans is absent or a number
\* below 20.
HasTooFewPlans(b) ==
  \/ ~b.isDict \/ ~b.samplesIsDict \/ b.plans.t \in {"absent", "null"}
  \/ b.plans.t = "num" /\ b.plans.n < 20 * b.plans.d

\* The label an entry carries for a bucket's model or taskClass: the string
\* trimmed, "*" when it is missing or blank.
Normalised(v) ==
  IF v.t # "str" \/ Strip(v.s) = <<>> THEN <<"*">> ELSE Strip(v.s)

EntriesFor(entries, i) == {k \in 1..Len(entries) : entries[k].id = i}

\* The sample-size floor of C2, with `label` giving what an entry carries
\* for a bucket's model and taskClass.
SampleFloor(entries, label(_)) ==
  /\ \A i \in 1..Len(ListedBuckets) :
       LET b == ListedBuckets[i]
       IN /\ HasTooFewPlans(b) => EntriesFor(entries, i) = {}
          /\ HasEnoughPlans(b) =>
               /\ Cardinality(EntriesFor(entries, i)) = 1
               /\ \A k \in EntriesFor(entries, i) :
                    /\ entries[k].model = label(b.model)
                    /\ entries[k].taskClass = label(b.taskClass)
                    /\ entries[k].arm = choose_arm(b)
  /\ Len(entries) =
       Cardinality({i \in 1..Len(ListedBuckets) :
                      HasEnoughPlans(ListedBuckets[i])})

Verbatim(v) == v.s

C10_MalformedSummaryNotFatal ==
  tuner.ran => (tuner.exit # 0 <=> summaryFile.file = "missing")

\* A successful apply has just ended.
Applied == tuner.ran /\ tuner.apply /\ tuner.exit = 0

KeyOfBucket(b) == <<Normalised(b.model), Normalised(b.taskClass)>>
KeyOfEntry(e) == <<e.model, e.taskClass>>

\* Entry index k of the file the run found was written for the key of a
\* bucket that now has fewer than 20 plans.
StaleEntry(k) ==
  \E i \in 1..Len(ListedBuckets) :
    /\ ListedBuckets[i].isDict
    /\ HasTooFewPlans(ListedBuckets[i])
    /\ KeyOfBucket(ListedBuckets[i]) = KeyOfEntry(tuner.before.doc.entries[k])

\* C8 as stated: after an apply to a summary in which a bucket key has
\* plans < 20, the overrides file still holds the entry a previous apply
\* wrote for that key.
C8_PriorOverrideKept ==
  Applied =>
    \A k \in 1..Len(tuner.before.doc.entries) :
      StaleEntry(k) =>
        \E j \in 1..Len(overridesFile.doc.entries) :
          /\ KeyOfEntry(overridesFile.doc.entries[j])
               = KeyOfEntry(tuner.before.doc.entries[k])
          /\ overridesFile.doc.entries[j].arm
               = tuner.before.doc.entries[k].arm

\* C8 as amended: an apply replaces the overrides file by the entries built
\* from the new summary alone, so the file holds an entry for a key only for
\* a bucket of the new summary with that key and plans >= 20; the entry a
\* previous apply wrote for the key of a bucket with plans < 20 is not kept.
C8_OverridesReplaced ==
  Applied =>
    /\ overridesFile.exists
    /\ \A j \in 1..Len(overridesFile.doc.entries) :
         LET e == overridesFile.doc.entries[j]
         IN /\ e.id \in 1..Len(ListedBuckets)
            /\ HasEnoughPlans(ListedBuckets[e.id])
            /\ KeyOfBucket(ListedBuckets[e.id]) = KeyOfEntry(e)

\* A second apply found an entry for a key whose bucket now has fewer than
\* 20 plans, and the file it wrote holds no entry for that key.
C8_Witness ==
  /\ Applied
  /\ \E k \in 1..Len(tuner.before.doc.entries) :
       /\ StaleEntry(k)
       /\ \A j \in 1..Len(overridesFile.doc.entries) :
            KeyOfEntry(overridesFile.doc.entries[j])
              # KeyOfEntry(tuner.before.doc.entries[k])

\* The rational x lies in [0, 1].
InUnit(x) == 0 <= x.n /\ x.n <= x.d
Emitted == obsPc = "done" /\ summary_payload.hasBuckets
SummaryBuckets == {summary_payload.buckets[i] :
                     i \in 1..Len(summary_payload.buckets)}
CountersOf(b) == grouped[<<b.model, b.taskClass>>]

\* C3: every bucket summary has 0 <= qualityProxy <= 1, where qualityProxy
\* is verificationPassRate * (1 - injectionDroppedRate).
C3_QualityProxyInUnit ==
  Emitted =>
    \A b \in SummaryBuckets :
      /\ InUnit(b.qualityProxy)
      /\ b.qualityProxy.n * b.verificationPassRate.d
           * b.injectionDroppedRate.d
         = b.verificationPassRate.n
           * (b.injectionDroppedRate.d - b.injectionDroppedRate.n)
           * b.qualityProxy.d

\* A summary of a bucket with a passed verification, an injection and a
\* drop: its qualityProxy lies strictly between 0 and 1.
C3_Witness ==
  /\ Emitted
  /\ \E b \in SummaryBuckets :
       /\ 0 < b.qualityProxy.n /\ b.qualityProxy.n < b.qualityProxy.d
       /\ b.injectionDroppedRate.n > 0

NonNegative(c) ==
  /\ c.plans >= 0 /\ c.floor_unmet >= 0 /\ c.dropped >= 0
  /\ c.injected_tokens_sum >= 0 /\ c.injected_count >= 0
  /\ c.zone_moves >= 0 /\ c.zone_move_tokens >= 0
  /\ c.verification_total >= 0 /\ c.verification_pass >= 0

\* C4 as stated: for a bucket summary built from non-negative raw counters,
\* floorUnmetRate, injectionDroppedRate, zoneAdaptationMoveRatio and
\* verificationPassRate all lie in [0, 1].
C4_RatesInUnit ==
  Emitted =>
    \A b \in SummaryBuckets :
      NonNegative(CountersOf(b)) =>
        /\ InUnit(b.floorUnmetRate) /\ InUnit(b.injectionDroppedRate)
        /\ InUnit(b.zoneAdaptationMoveRatio) /\ InUnit(b.verificationPassRate)

\* C4 as amended: for a bucket summary built from non-negative raw counters,
\* injectionDroppedRate and verificationPassRate lie in [0, 1], and
\* floorUnmetRate and zoneAdaptationMoveRatio are non-negative; they equal
\* floorUnmet / max(1, plans) and zoneMoveTokens / max(1, injectedTokensSum)
\* and are not bounded by 1.
C4_RatesBounded ==
  Emitted =>
    \A b \in SummaryBuckets :
      NonNegative(CountersOf(b)) =>
        /\ InUnit(b.injectionDroppedRate) /\ InUnit(b.verificationPassRate)
        /\ b.floorUnmetRate.n >= 0 /\ b.floorUnmetRate.d > 0
        /\ b.zoneAdaptationMoveRatio.n >= 0
        /\ b.zoneAdaptationMoveRatio.d > 0
        /\ b.floorUnmetRate.n = CountersOf(b).floor_unmet
        /\ b.floorUnmetRate.d \in {1, CountersOf(b).plans}
        /\ b.zoneAdaptationMoveRatio.n = CountersOf(b).zone_move_tokens
        /\ b.zoneAdaptationMoveRatio.d
             \in {1, CountersOf(b).injected_tokens_sum}

\* A summary of a bucket with floor-unmet and zone-adapted events and no
\* plan event: both ratios exceed 1.
C4_Witness ==
  /\ Emitted
  /\ \E b \in SummaryBuckets :
       /\ NonNegative(CountersOf(b))
       /\ b.samples.plans = 0
       /\ b.floorUnmetRate.n > b.floorUnmetRate.d
       /\ b.zoneAdaptationMoveRatio.n > b.zoneAdaptationMoveRatio.d

\* The payload field as C5 reads it: the number, 0 if it is no number.
NumberOrZero(v) == IF v.t = "num" THEN v.n ELSE 0

\* What C5 says the event adds to each counter of its session's bucket.
C5_Added(ev, cutoff) ==
  LET counted ==
        ev.timestamp.t = "num" /\ ev.timestamp.n >= cutoff * ev.timestamp.d
      injected == counted /\ ev.type = "context_injected"
      dropped ==
        /\ counted /\ ev.type = "context_injection_dropped"
        /\ ev.payload.reason # Str(<<"duplicate_content">>)
      floor == counted /\ ev.type = "context_arena_floor_unmet_unrecoverable"
      zone == counted /\ ev.type = "context_arena_zone_adapted"
      verified == counted /\ ev.type = "verification_outcome_recorded"
      One(c) == IF c THEN 1 ELSE 0
  IN [plans |-> One(injected \/ dropped),
      floor_unmet |-> One(floor),
      dropped |-> One(dropped),
      injected_tokens_sum |->
        IF injected THEN NumberOrZero(ev.payload.sourceTokens) ELSE 0,
      injected_count |-> One(injected),
      zone_moves |-> One(zone),
      zone_move_tokens |->
        IF zone THEN NumberOrZero(ev.payload.movedTokens) ELSE 0,
      verification_total |-> One(verified),
      verification_pass |->
        One(verified /\ ev.payload.outcome = Str(<<"pass">>))]

CounterNames == DOMAIN ZeroCounters

\* C5: an event processed by the accumulator changes only the counters of
\* its own session's bucket, by what its type adds when its timestamp is a
\* number >= cutoff, and by nothing otherwise (a missing, non-numeric or
\* below-cutoff timestamp, a duplicate_content drop, any other type).
C5_EventEffect ==
  [][obsPc = "count" =>
       /\ DOMAIN grouped' = DOMAIN grouped
       /\ \A k \in DOMAIN grouped : \A c \in CounterNames :
            grouped'[k][c] =
              IF k = bucketKey
              THEN grouped[k][c] + C5_Added(Head(events), cutoff_ms)[c]
              ELSE grouped[k][c]]_vars

\* Two sessions with different bucket keys have each had an injection at the
\* cutoff counted, and an injection below the cutoff was left out.
C5_Witness ==
  /\ obsPc = "scan"
  /\ Cardinality(DOMAIN grouped) = 2
  /\ \A k \in DOMAIN grouped :
       grouped[k].plans = 1 /\ grouped[k].injected_tokens_sum = 3
  /\ linesRead = 3

\* Some counted event has reached the bucket.
HasCountedEvent(c) ==
  c.plans + c.floor_unmet + c.zone_moves + c.verification_total > 0

\* C6 as stated: the summary holds an entry only for a bucket for which at
\* least one counted event occurred in this run.
C6_EntryOnlyIfCounted ==
  Emitted => \A b \in SummaryBuckets : HasCountedEvent(CountersOf(b))

EventCounters ==
  {"plans", "floor_unmet", "dropped", "injected_count", "zone_moves",
   "verification_total", "verification_pass"}

AllZeroOnCreation ==
  \A k \in DOMAIN grouped' \ DOMAIN grouped : grouped'[k] = ZeroCounters

\* C9 as stated: every counter of every bucket starts at zero, is
\* non-negative in every reachable state and never decreases, whatever the
\* sign of a numeric sourceTokens or movedTokens.
C9_CountersNeverDecrease ==
  /\ [](\A k \in DOMAIN grouped : NonNegative(grouped[k]))
  /\ [][/\ AllZeroOnCreation
        /\ \A k \in DOMAIN grouped :
             /\ k \in DOMAIN grouped'
             /\ \A c \in CounterNames : grouped'[k][c] >= grouped[k][c]]_vars

\* C9 as amended: every counter starts at zero; the seven event counters
\* (plans, floorUnmet, dropped, injectedCount, zoneMoves, verificationTotal,
\* verificationPass) are non-negative in every reachable state and never
\* decrease; injectedTokensSum and zoneMoveTokens change by the numeric
\* sourceTokens or movedTokens of the counted event, so they decrease, and
\* may fall below zero, exactly when that number is negative.
C9_EventCountersNeverDecrease ==
  /\ [](\A k \in DOMAIN grouped : \A c \in EventCounters : grouped[k][c] >= 0)
  /\ [][/\ AllZeroOnCreation
        /\ \A k \in DOMAIN grouped :
             /\ k \in DOMAIN grouped'
             /\ \A c \in EventCounters : grouped'[k][c] >= grouped[k][c]
             /\ obsPc # "count" => grouped'[k] = grouped[k]
             /\ obsPc = "count" =>
                  /\ grouped'[k].injected_tokens_sum
                       < grouped[k].injected_tokens_sum
                     <=> /\ k = bucketKey
                         /\ grouped'[k].injected_count
                              > grouped[k].injected_count
                         /\ NumberOrZero(Head(events).payload.sourceTokens) < 0
                  /\ grouped'[k].zone_move_tokens < grouped[k].zone_move_tokens
                     <=> /\ k = bucketKey
                         /\ grouped'[k].zone_moves > grouped[k].zone_moves
                         /\ NumberOrZero(Head(events).payload.movedTokens) < 0
       ]_vars

\* An injection with a negative sourceTokens has been counted: the token sum
\* of its bucket is below zero.
C9_Witness ==
  \E k \in DOMAIN grouped :
    grouped[k].injected_tokens_sum < 0 /\ grouped[k].injected_count = 1

\* The labels C7 names: the trimmed label of the last event of the type
\* whose payload is a mapping holding a string that is not blank.
LastLabel(evs, type, get(_), fallback) ==
  LET hits == {i \in 1..Len(evs) :
                 /\ evs[i].type = type /\ evs[i].payload.isDict
                 /\ get(evs[i].payload).t = "str"
                 /\ Strip(get(evs[i].payload).s) # <<>>}
  IN IF hits = {} THEN fallback
     ELSE Strip(get(evs[CHOOSE i \in hits : \A j \in hits : j <= i].payload).s)

PayloadModel(payload) == payload.model
PayloadSkillName(payload) == payload.skillName

\* C7 as stated: session_bucket returns the trimmed payload.model of the
\* last cost_update event with a non-blank string model, or "(unknown)", and
\* the trimmed payload.skillName of the last skill_activated event with a
\* non-blank string skillName, or "(none)", whatever the timestamps.
C7_MostRecentLabels ==
  attributed.done =>
    /\ attributed.model
         = LastLabel(session, "cost_update", PayloadModel, UNKNOWN_MODEL)
    /\ attributed.task_class
         = LastLabel(session, "skill_activated", PayloadSkillName,
                     NONE_TASK_CLASS)

====
